---- MODULE Spec2Model ----
(***************************************************************************)
(* State-machine model of the workout CSV pipeline:                        *)
(*   - DataEnrichment (modules/data_enrichment.py): the exercise           *)
(*     classifier with its alias lookup, fuzzy rules, memo cache and       *)
(*     unmapped list;                                                      *)
(*   - CSVParser (modules/csv_parser.py): column mapping, validation and   *)
(*     the strict-mode gate.                                               *)
(* Text is modelled as a sequence of one-character strings, so that        *)
(* lower(), strip(), split(), join() and the substring test `in` are       *)
(* computed as Python computes them.                                       *)
(***************************************************************************)
EXTENDS Integers, Sequences, FiniteSets, TLC

VARIABLES
    config,              \* DataEnrichment.config
    exercise_lookup,     \* DataEnrichment.exercise_lookup
    exercise_cache,      \* DataEnrichment.exercise_cache
    unmapped_exercises,  \* DataEnrichment.unmapped_exercises
    ein,                 \* the DataFrame last handed to enrich_dataframe, as handed in
    edf,                 \* the DataFrame last handed to enrich_dataframe, as the call left it
    eout,                \* how the last classifier call ended
    schema,              \* CSVParser.schema
    errors,              \* CSVParser.errors
    warnings,            \* CSVParser.warnings
    column_mappings,     \* CSVParser.column_mappings
    pfile,               \* the file last handed to parse_csv
    pout,                \* how the last parse_csv call ended
    pbefore,             \* history: the call before the last one raised and left errors
    sql_files,           \* the views that have a file sql/views/<name>.sql
    rejected,            \* the views whose CREATE OR REPLACE VIEW query BigQuery refuses
    dataset_views,       \* the views of the BigQuery dataset
    vconfigs,            \* the view_configs last handed to refresh_all_views
    vlog,                \* the records the last view manager call logged
    vout                 \* how the last view manager call ended

evars == <<config, exercise_lookup, exercise_cache, unmapped_exercises, ein, edf, eout>>
pvars == <<schema, errors, warnings, column_mappings, pfile, pout, pbefore>>
vwvars == <<sql_files, rejected, dataset_views, vconfigs, vlog, vout>>
vars == <<config, exercise_lookup, exercise_cache, unmapped_exercises, ein, edf, eout,
          schema, errors, warnings, column_mappings, pfile, pout, pbefore,
          sql_files, rejected, dataset_views, vconfigs, vlog, vout>>

\* Python's None / pandas' NaN in a cell: a token that is no text of the runs
None == "<None>"

\* what a lookup that finds nothing returns (Python's None as a result)
NoMatch == <<>>

\* {} : the empty dict
EmptyDict == [x \in {} |-> x]

\* dict.get(key, default)
Get(d, k, dflt) == IF k \in DOMAIN d THEN d[k] ELSE dflt

(***************************************************************************)
(* Text                                                                    *)
(***************************************************************************)
UpperChars == <<"A","B","C","D","E","F","G","H","I","J","K","L","M",
                "N","O","P","Q","R","S","T","U","V","W","X","Y","Z">>
LowerChars == <<"a","b","c","d","e","f","g","h","i","j","k","l","m",
                "n","o","p","q","r","s","t","u","v","w","x","y","z">>

\* str.lower() on one character
LowerOf == [i \in 1..Len(UpperChars) |-> LowerChars[i]]
UpperIndex == [c \in {UpperChars[i] : i \in 1..Len(UpperChars)} |->
                  CHOOSE i \in 1..Len(UpperChars) : UpperChars[i] = c]
LowerChar(c) == IF c \in DOMAIN UpperIndex THEN LowerOf[UpperIndex[c]] ELSE c

\* str.lower()
Lower(s) == [i \in 1..Len(s) |-> LowerChar(s[i])]

\* the characters str.strip() and str.split() treat as whitespace
IsSpace(c) == c \in {" ", "\t"}

RECURSIVE LStrip(_)
LStrip(s) == IF s # <<>> /\ IsSpace(Head(s)) THEN LStrip(Tail(s)) ELSE s

RECURSIVE RStrip(_)
RStrip(s) ==
    IF s # <<>> /\ IsSpace(s[Len(s)]) THEN RStrip(SubSeq(s, 1, Len(s) - 1)) ELSE s

\* str.strip()
Strip(s) == RStrip(LStrip(s))

\* str.split(): the maximal runs of non-whitespace characters, in order
RECURSIVE SplitAcc(_, _, _)
SplitAcc(s, cur, acc) ==
    IF s = <<>>
    THEN IF cur = <<>> THEN acc ELSE Append(acc, cur)
    ELSE IF IsSpace(Head(s))
         THEN SplitAcc(Tail(s), <<>>, IF cur = <<>> THEN acc ELSE Append(acc, cur))
         ELSE SplitAcc(Tail(s), Append(cur, Head(s)), acc)

Split(s) == SplitAcc(s, <<>>, <<>>)

\* ' '.join(words)
RECURSIVE JoinSpace(_)
JoinSpace(words) ==
    IF words = <<>> THEN <<>>
    ELSE IF Len(words) = 1 THEN words[1]
    ELSE words[1] \o <<" ">> \o JoinSpace(Tail(words))

\* Python's `sub in s` on strings
Contains(s, sub) ==
    \E i \in 0..(Len(s) - Len(sub)) : SubSeq(s, i + 1, i + Len(sub)) = sub

(***************************************************************************)
(* The texts of the bounded runs.  A text is held as a TLA+ string; Chars   *)
(* gives its characters, which is what the text operations work on.        *)
(***************************************************************************)
CharTable ==
    ("" :> <<>>)
    @@ ("Bench Press" :> <<"B","e","n","c","h"," ","P","r","e","s","s">>)
    @@ (" bench\tPRESS " :> <<" ","b","e","n","c","h","\t","P","R","E","S","S"," ">>)
    @@ ("Leg Press" :> <<"L","e","g"," ","P","r","e","s","s">>)
    @@ ("Romanian Deadlift" :> <<"R","o","m","a","n","i","a","n"," ","D","e","a","d","l","i","f","t">>)
    @@ ("Plank" :> <<"P","l","a","n","k">>)
    @@ ("bench press" :> <<"b","e","n","c","h"," ","p","r","e","s","s">>)
    @@ ("BENCH  press" :> <<"B","E","N","C","H"," "," ","p","r","e","s","s">>)
    @@ ("press" :> <<"p","r","e","s","s">>)
    @@ ("Press" :> <<"P","r","e","s","s">>)
    @@ ("leg" :> <<"l","e","g">>)
    @@ ("LEG" :> <<"L","E","G">>)
    @@ ("deadlift" :> <<"d","e","a","d","l","i","f","t">>)
    @@ ("lift" :> <<"l","i","f","t">>)
    @@ ("date" :> <<"d","a","t","e">>)
    @@ ("Date" :> <<"D","a","t","e">>)
    @@ ("DATE" :> <<"D","A","T","E">>)
    @@ ("datetime" :> <<"d","a","t","e","t","i","m","e">>)
    @@ ("exercise_name" :> <<"e","x","e","r","c","i","s","e","_","n","a","m","e">>)
    @@ ("Exercise" :> <<"E","x","e","r","c","i","s","e">>)
    @@ ("Exercise_Name" :> <<"E","x","e","r","c","i","s","e","_","N","a","m","e">>)
    @@ ("EXERCISE" :> <<"E","X","E","R","C","I","S","E">>)
    @@ ("workout_name" :> <<"w","o","r","k","o","u","t","_","n","a","m","e">>)
    @@ ("Workout" :> <<"W","o","r","k","o","u","t">>)
    @@ ("weight_kg" :> <<"w","e","i","g","h","t","_","k","g">>)
    @@ ("Weight (kg)" :> <<"W","e","i","g","h","t"," ","(","k","g",")">>)
    @@ ("Weight_KG" :> <<"W","e","i","g","h","t","_","K","G">>)
    @@ ("reps" :> <<"r","e","p","s">>)
    @@ ("Reps" :> <<"R","e","p","s">>)
    @@ ("REPS" :> <<"R","E","P","S">>)
    @@ ("Reps Count" :> <<"R","e","p","s"," ","C","o","u","n","t">>)
    @@ ("notes" :> <<"n","o","t","e","s">>)
    @@ ("Notes" :> <<"N","o","t","e","s">>)
    @@ ("rpe" :> <<"r","p","e">>)
    @@ ("RPE" :> <<"R","P","E">>)

\* the characters of a text
Chars(s) == CharTable[s]

\* DataEnrichment._normalize_name: lowercase, stripped, single spaces
NormalizeText(name) == JoinSpace(Split(Strip(Lower(Chars(name)))))

\* the raw exercise_name cells that are neither missing nor empty
NonBlankNames == {" bench\tPRESS ", "Leg Press", "Romanian Deadlift", "Plank"}

\* every raw exercise_name cell: a missing value, the empty string, a name
RawNames == NonBlankNames \cup {"", None}

\* NormalizeText, evaluated once for the names of the bounded runs
NormalizeMemo == [name \in NonBlankNames |-> NormalizeText(name)]

\* DataEnrichment._normalize_name (through the table where it covers the name)
NormalizeName(name) ==
    IF name \in DOMAIN NormalizeMemo THEN NormalizeMemo[name] ELSE NormalizeText(name)

(***************************************************************************)
(* Classification configurations (exercise_mapping.yaml, already parsed)   *)
(***************************************************************************)
\* the spec's examples: an exact alias that also holds a fuzzy keyword, a rule
\* with an exclusion, a rule without the exclude key
CfgA ==
    [exercises |-> <<[names |-> <<"Bench Press">>, level1 |-> "upper", level2 |-> "chest",
                      compound |-> TRUE]>>,
     fuzzy_rules |-> <<[keyword |-> "press", level1 |-> "upper", level2 |-> "shoulders",
                        exclude |-> <<"leg">>],
                       [keyword |-> "deadlift", level1 |-> "lower",
                        level2 |-> "hamstrings"]>>,
     default_mapping |-> [level1 |-> "other", level2 |-> "misc"]]

\* two groups declaring the same normalized alias, upper-case keyword and exclusion,
\* a name matched by two rules, no default_mapping key
CfgB ==
    [exercises |-> <<[names |-> <<"bench press">>, level1 |-> "upper", level2 |-> "chest"],
                     [level1 |-> "core", level2 |-> "abs"],
                     [names |-> <<"BENCH  press">>, level1 |-> "upper", level2 |-> "pecs"]>>,
     fuzzy_rules |-> <<[keyword |-> "Press", level1 |-> "upper", level2 |-> "shoulders",
                        exclude |-> <<"LEG">>],
                       [keyword |-> "leg", level1 |-> "lower", level2 |-> "quads",
                        exclude |-> <<>>],
                       [keyword |-> "deadlift", level1 |-> "lower", level2 |-> "hamstrings",
                        exclude |-> <<>>],
                       [keyword |-> "lift", level1 |-> "lower", level2 |-> "back",
                        exclude |-> <<>>]>>]

\* the rules of CfgB in another order, a default_mapping without level2
CfgC ==
    [exercises |-> <<>>,
     fuzzy_rules |-> <<[keyword |-> "lift", level1 |-> "lower", level2 |-> "back",
                        exclude |-> <<"press">>],
                       [keyword |-> "deadlift", level1 |-> "lower", level2 |-> "hamstrings",
                        exclude |-> <<>>],
                       [keyword |-> "leg", level1 |-> "lower", level2 |-> "quads",
                        exclude |-> <<"Plank", "Press">>]>>,
     default_mapping |-> [level1 |-> "core"]]

\* neither groups nor rules
CfgD == [default_mapping |-> [level1 |-> "unknown", level2 |-> "unmapped"]]

Configs == {CfgA, CfgB, CfgC, CfgD}

(***************************************************************************)
(* DataEnrichment                                                          *)
(***************************************************************************)
\* d[k] = v on a dict
Put(d, k, v) == [x \in DOMAIN d \cup {k} |-> IF x = k THEN v ELSE d[x]]

\* mutant of AddNames: the alias stored as written, not normalized
RECURSIVE AddNames_RawKey(_, _, _)
AddNames_RawKey(lookup, names, levels) ==
    IF names = <<>> THEN lookup
    ELSE AddNames_RawKey(Put(lookup, Chars(Head(names)), levels), Tail(names), levels)

\* the inner loop of _build_exercise_lookup: one group's names
RECURSIVE AddNames(_, _, _)
AddNames(lookup, names, levels) ==
    IF names = <<>> THEN lookup
    ELSE AddNames(Put(lookup, NormalizeName(Head(names)), levels), Tail(names), levels)

\* the outer loop of _build_exercise_lookup
RECURSIVE AddExercises(_, _)
AddExercises(lookup, exercises) ==
    IF exercises = <<>> THEN lookup
    ELSE AddExercises(
             AddNames(lookup, Get(Head(exercises), "names", <<>>),
                      <<Head(exercises).level1, Head(exercises).level2>>),
             Tail(exercises))

\* DataEnrichment._build_exercise_lookup
BuildExerciseLookup(cfg) == AddExercises(EmptyDict, Get(cfg, "exercises", <<>>))

\* DataEnrichment._exact_match
ExactMatch(lookup, normalized_name) ==
    IF normalized_name \in DOMAIN lookup THEN lookup[normalized_name] ELSE NoMatch

\* mutant of Excluded: the exclusion term compared without lower()
Excluded_CaseSensitive(rule, normalized_name) ==
    LET exclude == Get(rule, "exclude", <<>>)
    IN  \E i \in 1..Len(exclude) : Contains(normalized_name, Chars(exclude[i]))

\* the exclusion loop of _fuzzy_match
Excluded(rule, normalized_name) ==
    LET exclude == Get(rule, "exclude", <<>>)
    IN  \E i \in 1..Len(exclude) : Contains(normalized_name, Lower(Chars(exclude[i])))

\* one rule of _fuzzy_match
RuleMatches(rule, normalized_name) ==
    /\ Contains(normalized_name, Lower(Chars(rule.keyword)))
    /\ ~Excluded(rule, normalized_name)

\* the rule loop of _fuzzy_match
RECURSIVE FuzzyRules(_, _)
FuzzyRules(rules, normalized_name) ==
    IF rules = <<>> THEN NoMatch
    ELSE IF RuleMatches(Head(rules), normalized_name)
         THEN <<Head(rules).level1, Head(rules).level2>>
         ELSE FuzzyRules(Tail(rules), normalized_name)

\* FuzzyRules, evaluated once for the configurations and names of the bounded runs
FuzzyMemo ==
    [cfg \in Configs |->
        [n \in {NormalizeMemo[x] : x \in NonBlankNames} |->
            FuzzyRules(Get(cfg, "fuzzy_rules", <<>>), n)]]

\* DataEnrichment._fuzzy_match (through the table where it covers the arguments)
FuzzyMatch(cfg, normalized_name) ==
    IF cfg \in DOMAIN FuzzyMemo /\ normalized_name \in DOMAIN FuzzyMemo[cfg]
    THEN FuzzyMemo[cfg][normalized_name]
    ELSE FuzzyRules(Get(cfg, "fuzzy_rules", <<>>), normalized_name)

\* mutant of ApplyDefaultMapping: dict.get without the fallback values
ApplyDefaultMapping_NoFallback(cfg) ==
    LET default == Get(cfg, "default_mapping", EmptyDict)
    IN  <<Get(default, "level1", None), Get(default, "level2", None)>>

\* DataEnrichment._apply_default_mapping
ApplyDefaultMapping(cfg) ==
    LET default == Get(cfg, "default_mapping", EmptyDict)
    IN  <<Get(default, "level1", "upper"), Get(default, "level2", "unknown")>>

\* mutant of IsBlank: the empty string not tested
IsBlank_NaOnly(exercise_name) == exercise_name = None

\* pd.isna(exercise_name) or exercise_name == ''
IsBlank(exercise_name) == exercise_name = None \/ exercise_name = ""

\* mutant of MapExerciseToMuscles: a name resolved by a fuzzy rule is recorded as
\* unmapped too
MapExerciseToMuscles_FuzzyUnmapped(cfg, lookup, st, exercise_name) ==
    IF exercise_name = None \/ exercise_name = ""
    THEN [result |-> <<"unknown", "unknown">>, cache |-> st.cache, unmapped |-> st.unmapped]
    ELSE IF exercise_name \in DOMAIN st.cache
    THEN [result |-> st.cache[exercise_name], cache |-> st.cache, unmapped |-> st.unmapped]
    ELSE LET normalized == NormalizeName(exercise_name)
             exact == ExactMatch(lookup, normalized)
             fuzzy == FuzzyMatch(cfg, normalized)
             dflt == ApplyDefaultMapping(cfg)
         IN  IF exact # NoMatch
             THEN [result |-> exact, cache |-> Put(st.cache, exercise_name, exact),
                   unmapped |-> st.unmapped]
             ELSE IF fuzzy # NoMatch
             THEN [result |-> fuzzy, cache |-> Put(st.cache, exercise_name, fuzzy),
                   unmapped |-> Append(st.unmapped, exercise_name)]
             ELSE [result |-> dflt, cache |-> Put(st.cache, exercise_name, dflt),
                   unmapped |-> Append(st.unmapped, exercise_name)]

\* a classifier whose cache hit answers with the default mapping
MapExerciseToMuscles_StaleHit(cfg, lookup, st, exercise_name) ==
    IF IsBlank(exercise_name)
    THEN [result |-> <<"unknown", "unknown">>, cache |-> st.cache, unmapped |-> st.unmapped]
    ELSE IF exercise_name \in DOMAIN st.cache
    THEN [result |-> ApplyDefaultMapping(cfg), cache |-> st.cache, unmapped |-> st.unmapped]
    ELSE LET normalized == NormalizeName(exercise_name)
             exact == ExactMatch(lookup, normalized)
             fuzzy == FuzzyMatch(cfg, normalized)
             dflt == ApplyDefaultMapping(cfg)
         IN  IF exact # NoMatch
             THEN [result |-> exact, cache |-> Put(st.cache, exercise_name, exact),
                   unmapped |-> st.unmapped]
             ELSE IF fuzzy # NoMatch
             THEN [result |-> fuzzy, cache |-> Put(st.cache, exercise_name, fuzzy),
                   unmapped |-> st.unmapped]
             ELSE [result |-> dflt, cache |-> Put(st.cache, exercise_name, dflt),
                   unmapped |-> Append(st.unmapped, exercise_name)]

\* a classifier that caches the two levels in the wrong order
MapExerciseToMuscles_CacheSwapped(cfg, lookup, st, exercise_name) ==
    IF IsBlank(exercise_name)
    THEN [result |-> <<"unknown", "unknown">>, cache |-> st.cache, unmapped |-> st.unmapped]
    ELSE IF exercise_name \in DOMAIN st.cache
    THEN [result |-> st.cache[exercise_name], cache |-> st.cache, unmapped |-> st.unmapped]
    ELSE LET normalized == NormalizeName(exercise_name)
             exact == ExactMatch(lookup, normalized)
             fuzzy == FuzzyMatch(cfg, normalized)
             dflt == ApplyDefaultMapping(cfg)
             hit == IF exact # NoMatch THEN exact ELSE IF fuzzy # NoMatch THEN fuzzy ELSE dflt
         IN  [result |-> hit, cache |-> Put(st.cache, exercise_name, <<hit[2], hit[1]>>),
              unmapped |-> IF exact = NoMatch /\ fuzzy = NoMatch
                           THEN Append(st.unmapped, exercise_name) ELSE st.unmapped]

\* a classifier that does not cache a name that fell to the default mapping
MapExerciseToMuscles_NoCacheOnDefault(cfg, lookup, st, exercise_name) ==
    IF IsBlank(exercise_name)
    THEN [result |-> <<"unknown", "unknown">>, cache |-> st.cache, unmapped |-> st.unmapped]
    ELSE IF exercise_name \in DOMAIN st.cache
    THEN [result |-> st.cache[exercise_name], cache |-> st.cache, unmapped |-> st.unmapped]
    ELSE LET normalized == NormalizeName(exercise_name)
             exact == ExactMatch(lookup, normalized)
             fuzzy == FuzzyMatch(cfg, normalized)
             dflt == ApplyDefaultMapping(cfg)
         IN  IF exact # NoMatch
             THEN [result |-> exact, cache |-> Put(st.cache, exercise_name, exact),
                   unmapped |-> st.unmapped]
             ELSE IF fuzzy # NoMatch
             THEN [result |-> fuzzy, cache |-> Put(st.cache, exercise_name, fuzzy),
                   unmapped |-> st.unmapped]
             ELSE [result |-> dflt, cache |-> st.cache,
                   unmapped |-> Append(st.unmapped, exercise_name)]

\* DataEnrichment._map_exercise_to_muscles on the instance state st = [cache, unmapped]:
\* the returned tuple and the instance state it leaves
MapExerciseToMuscles(cfg, lookup, st, exercise_name) ==
    IF IsBlank(exercise_name)
    THEN [result |-> <<"unknown", "unknown">>, cache |-> st.cache, unmapped |-> st.unmapped]
    ELSE IF exercise_name \in DOMAIN st.cache
    THEN [result |-> st.cache[exercise_name], cache |-> st.cache, unmapped |-> st.unmapped]
    ELSE LET normalized == NormalizeName(exercise_name)
             exact == ExactMatch(lookup, normalized)
             fuzzy == FuzzyMatch(cfg, normalized)
             dflt == ApplyDefaultMapping(cfg)
         IN  IF exact # NoMatch
             THEN [result |-> exact, cache |-> Put(st.cache, exercise_name, exact),
                   unmapped |-> st.unmapped]
             ELSE IF fuzzy # NoMatch
             THEN [result |-> fuzzy, cache |-> Put(st.cache, exercise_name, fuzzy),
                   unmapped |-> st.unmapped]
             ELSE [result |-> dflt, cache |-> Put(st.cache, exercise_name, dflt),
                   unmapped |-> Append(st.unmapped, exercise_name)]

\* Series.apply(self._map_exercise_to_muscles): the rows in order, each call seeing the
\* instance state the previous one left; acc = [results, cache, unmapped]
RECURSIVE ApplyMap(_, _, _, _)
ApplyMap(cfg, lookup, acc, names) ==
    IF names = <<>> THEN acc
    ELSE LET r == MapExerciseToMuscles(cfg, lookup, acc, Head(names))
         IN  ApplyMap(cfg, lookup,
                      [results |-> Append(acc.results, r.result), cache |-> r.cache,
                       unmapped |-> r.unmapped],
                      Tail(names))

\* the largest number of rows of a table handed to enrich_dataframe
MaxRows == 2

\* the rows of a DataFrame with the single column col, its cells drawn from cells
RowsOf(col, cells) ==
    UNION {[1..n -> {[c \in {col} |-> v] : v \in cells}] : n \in 0..MaxRows}

\* the DataFrames handed to enrich_dataframe: with an exercise_name column, or with
\* another column only
EnrichInputs ==
    {[columns |-> {"exercise_name"}, rows |-> r] : r \in RowsOf("exercise_name", RawNames)}
    \cup {[columns |-> {"workout_name"}, rows |-> r] : r \in RowsOf("workout_name", {"Plank"})}

\* df['exercise_name'] as a list
NameColumn(df) == [i \in 1..Len(df.rows) |-> df.rows[i].exercise_name]

\* a column assignment that writes the value into every column of the row
SetColumn_WholeRow(df, col, values) ==
    [columns |-> df.columns \cup {col},
     rows |-> [i \in 1..Len(df.rows) |-> [c \in df.columns \cup {col} |-> values[i]]]]

\* df[col] = values : a column added to (or replaced in) every row
SetColumn(df, col, values) ==
    [columns |-> df.columns \cup {col},
     rows |-> [i \in 1..Len(df.rows) |-> Put(df.rows[i], col, values[i])]]

\* line 56 of enrich_dataframe: what the call resets at entry, and what it keeps
EnrichEntry(cache, unmapped) == [results |-> <<>>, cache |-> cache, unmapped |-> <<>>]

\* an enrich_dataframe that writes the two columns before it looks for exercise_name
EnrichDataframe_ColumnsFirst(df) ==
    LET entry == EnrichEntry(exercise_cache, unmapped_exercises)
        names == IF "exercise_name" \in df.columns THEN NameColumn(df)
                 ELSE [i \in 1..Len(df.rows) |-> None]
    IN  \E acc \in {ApplyMap(config, exercise_lookup, entry, names)} :
            /\ unmapped_exercises' = acc.unmapped
            /\ exercise_cache' = acc.cache
            /\ ein' = df
            /\ edf' = SetColumn(SetColumn(df, "muscle_group_level1",
                                          [i \in 1..Len(acc.results) |-> acc.results[i][1]]),
                                "muscle_group_level2",
                                [i \in 1..Len(acc.results) |-> acc.results[i][2]])
            /\ eout' = [op |-> "enrich",
                        status |-> IF "exercise_name" \in df.columns THEN "returned"
                                   ELSE "ValueError"]

\* DataEnrichment.enrich_dataframe(df)
EnrichDataframe(df) ==
    LET entry == EnrichEntry(exercise_cache, unmapped_exercises)
    IN  IF "exercise_name" \notin df.columns
        THEN /\ unmapped_exercises' = entry.unmapped
             /\ exercise_cache' = entry.cache
             /\ ein' = df
             /\ edf' = df
             /\ eout' = [op |-> "enrich", status |-> "ValueError"]
        ELSE \E acc \in {ApplyMap(config, exercise_lookup, entry, NameColumn(df))} :
                 /\ unmapped_exercises' = acc.unmapped
                 /\ exercise_cache' = acc.cache
                 /\ ein' = df
                 /\ edf' = SetColumn(SetColumn(df, "muscle_group_level1",
                                               [i \in 1..Len(acc.results) |-> acc.results[i][1]]),
                                     "muscle_group_level2",
                                     [i \in 1..Len(acc.results) |-> acc.results[i][2]])
                 /\ eout' = [op |-> "enrich", status |-> "returned"]

\* DataEnrichment.__init__
InitClassifier(cfg) ==
    /\ config = cfg
    /\ exercise_lookup = BuildExerciseLookup(cfg)
    /\ exercise_cache = EmptyDict
    /\ unmapped_exercises = <<>>
    /\ ein = [columns |-> {}, rows |-> <<>>]
    /\ edf = [columns |-> {}, rows |-> <<>>]
    /\ eout = [op |-> "init", status |-> "returned"]

\* CSVParser.__init__
InitParser(sch) ==
    /\ schema = sch
    /\ errors = <<>>
    /\ warnings = <<>>
    /\ column_mappings = EmptyDict
    /\ pfile = [readable |-> FALSE, headers |-> <<>>, rows |-> <<>>]
    /\ pout = [status |-> "init", df |-> [nrows |-> 0, columns |-> <<>>, cols |-> <<>>],
               message |-> <<>>]
    /\ pbefore = FALSE

Enrich == \E df \in EnrichInputs : EnrichDataframe(df) /\ UNCHANGED <<config, exercise_lookup>>

\* one classifier instance, any sequence of enrich_dataframe calls
\* the view manager after construction, in front of a dataset without views
InitViewManager(files, refused) ==
    /\ sql_files = files
    /\ rejected = refused
    /\ dataset_views = {}
    /\ vconfigs = <<>>
    /\ vlog = <<>>
    /\ vout = [op |-> "init", status |-> "returned"]

InitEnrich ==
    /\ \E cfg \in Configs : InitClassifier(cfg)
    /\ InitParser(EmptyDict)
    /\ InitViewManager({}, {})
NextEnrich == Enrich /\ UNCHANGED <<pvars, vwvars>>
SpecEnrich == InitEnrich /\ [][NextEnrich]_vars

(***************************************************************************)
(* What the claims speak of, stated from the configuration alone           *)
(***************************************************************************)
\* the last enrich_dataframe call returned a table
EnrichReturned == eout.op = "enrich" /\ eout.status = "returned"

\* the rows of the enriched table
ERows == 1..Len(edf.rows)

\* the raw names held by a list
Names(list) == {list[i] : i \in 1..Len(list)}

\* the unmapped set reported for the run (get_unmapped_exercises)
UnmappedSet == Names(unmapped_exercises)

\* the groups of cfg that declare an alias whose normal form is that of name
AliasGroups(cfg, name) ==
    LET groups == Get(cfg, "exercises", <<>>)
    IN  {g \in 1..Len(groups) :
            \E j \in 1..Len(Get(groups[g], "names", <<>>)) :
                NormalizeText(groups[g].names[j]) = NormalizeText(name)}

\* rule r of cfg applies to name: its keyword occurs in the normal form, whatever the
\* case, and none of its exclusion terms does
RuleApplies(cfg, r, name) ==
    LET rule == cfg.fuzzy_rules[r]
        terms == Get(rule, "exclude", <<>>)
    IN  /\ Contains(NormalizeText(name), Lower(Chars(rule.keyword)))
        /\ \A t \in 1..Len(terms) : ~Contains(NormalizeText(name), Lower(Chars(terms[t])))

\* the rules of cfg that apply to name
ApplicableRules(cfg, name) ==
    {r \in 1..Len(Get(cfg, "fuzzy_rules", <<>>)) : RuleApplies(cfg, r, name)}

Least(S) == CHOOSE x \in S : \A y \in S : x <= y
Greatest(S) == CHOOSE x \in S : \A y \in S : x >= y

\* the tier that resolves a raw name
Tier(cfg, name) ==
    IF name = None \/ name = "" THEN "blank"
    ELSE IF AliasGroups(cfg, name) # {} THEN "exact"
    ELSE IF ApplicableRules(cfg, name) # {} THEN "fuzzy"
    ELSE "default"

\* the configured default pair, with the fallbacks of the code for an absent key
DefaultPair(cfg) ==
    LET d == IF "default_mapping" \in DOMAIN cfg THEN cfg.default_mapping ELSE EmptyDict
    IN  <<IF "level1" \in DOMAIN d THEN d.level1 ELSE "upper",
          IF "level2" \in DOMAIN d THEN d.level2 ELSE "unknown">>

\* the pair of levels row i of the enriched table got
RowPair(i) == <<edf.rows[i].muscle_group_level1, edf.rows[i].muscle_group_level2>>

\* the tiers, evaluated once for the configurations and names of the bounded runs
TierMemo == [cfg \in Configs |-> [name \in RawNames |-> Tier(cfg, name)]]
TierOf(name) == TierMemo[config][name]

(***************************************************************************)
(* Claims                                                                  *)
(***************************************************************************)
\* C2: after each enrich call returns, every non-blank exercise name of its table that
\* resolves to the default tier is in the unmapped set reported for that run.
C2_DefaultTierNamesAreUnmapped ==
    EnrichReturned =>
        \A i \in ERows :
            TierOf(edf.rows[i].exercise_name) = "default"
                => edf.rows[i].exercise_name \in UnmappedSet

\* C3: every enrich call starts with an empty memo cache and an empty unmapped list, so
\* after a call the cache and the unmapped list hold names of that call's table only.
C3_PerCallStateIsFresh ==
    EnrichReturned =>
        /\ DOMAIN exercise_cache \subseteq {edf.rows[i].exercise_name : i \in ERows}
        /\ UnmappedSet \subseteq {edf.rows[i].exercise_name : i \in ERows}

\* C5: every row of an enriched table has muscle_group_level1 and muscle_group_level2
\* populated (neither null nor empty), whatever its exercise name.
C5_LevelsAlwaysPopulated ==
    EnrichReturned =>
        /\ {"muscle_group_level1", "muscle_group_level2"} \subseteq edf.columns
        /\ \A i \in ERows :
              /\ {"muscle_group_level1", "muscle_group_level2"} \subseteq DOMAIN edf.rows[i]
              /\ edf.rows[i].muscle_group_level1 \notin {None, ""}
              /\ edf.rows[i].muscle_group_level2 \notin {None, ""}

\* C5 witness: an enriched table with a missing, an unmatched and a matched name
C5_Witness ==
    /\ EnrichReturned
    /\ \E i, j \in ERows :
          /\ edf.rows[i].exercise_name = None
          /\ TierOf(edf.rows[j].exercise_name) = "default"
    /\ "default_mapping" \notin DOMAIN config

\* C6: a name whose normal form is an alias of an explicit group gets that group's
\* levels (the last declared group's, when several declare the alias), never those of a
\* fuzzy rule whose keyword also occurs in it, whatever was classified before.
C6_ExactMatchPriority ==
    EnrichReturned =>
        \A i \in ERows :
            TierOf(edf.rows[i].exercise_name) = "exact" =>
                LET g == config.exercises[Greatest(AliasGroups(config, edf.rows[i].exercise_name))]
                IN  RowPair(i) = <<g.level1, g.level2>>

\* C6 witness: an exact alias that a fuzzy rule with other levels applies to as well,
\* classified after another name and with the cache already holding it
C6_Witness ==
    /\ EnrichReturned
    /\ \E i \in ERows :
          /\ i > 1
          /\ TierOf(edf.rows[i].exercise_name) = "exact"
          /\ \E r \in ApplicableRules(config, edf.rows[i].exercise_name) :
                <<config.fuzzy_rules[r].level1, config.fuzzy_rules[r].level2>> # RowPair(i)
          /\ edf.rows[i].exercise_name \in Names(SubSeq(NameColumn(edf), 1, i - 1))

\* C7: a name with no exact match gets the levels of the first rule, in declared order,
\* whose keyword occurs in its normal form (whatever the case) and none of whose
\* exclusion terms does; an excluded rule is skipped, later rules are still tried, and
\* the default is applied when no rule is left.
C7_FuzzyFirstApplicableRule ==
    EnrichReturned =>
        \A i \in ERows :
            LET name == edf.rows[i].exercise_name
            IN  /\ TierOf(name) = "fuzzy" =>
                      LET rule == config.fuzzy_rules[Least(ApplicableRules(config, name))]
                      IN  RowPair(i) = <<rule.level1, rule.level2>>
                /\ TierOf(name) = "default" => RowPair(i) = DefaultPair(config)

\* C7 witness: "Leg Press" skips the excluded "press" rule and is taken by a later rule,
\* next to a name that two rules apply to
C7_Witness ==
    /\ EnrichReturned
    /\ \E i, j \in ERows :
          /\ edf.rows[i].exercise_name = "Leg Press"
          /\ TierOf("Leg Press") = "fuzzy"
          /\ Least(ApplicableRules(config, "Leg Press")) > 1
          /\ edf.rows[j].exercise_name \in NonBlankNames
          /\ Cardinality(ApplicableRules(config, edf.rows[j].exercise_name)) > 1

\* C8: an empty or missing exercise name is classified ("unknown", "unknown"), whatever
\* the configuration, its default, the memo cache and the earlier calls.
C8_BlankIsUnknown ==
    EnrichReturned =>
        \A i \in ERows :
            edf.rows[i].exercise_name \in {"", None} => RowPair(i) = <<"unknown", "unknown">>

\* C8 witness: an empty and a missing name classified under a default that is not
\* (unknown, unknown), with a filled cache
C8_Witness ==
    /\ EnrichReturned
    /\ DefaultPair(config) = <<"other", "misc">>
    /\ exercise_cache # EmptyDict
    /\ \E i, j \in ERows :
          edf.rows[i].exercise_name = "" /\ edf.rows[j].exercise_name = None

Null == [k |-> "null", v |-> ""]
PyNone == [k |-> "none", v |-> ""]
Num(x) == [k |-> "num", v |-> x]
Text(t) == [k |-> "text", v |-> t]
Ts(t) == [k |-> "ts", v |-> t]

\* Series.isna() on one cell
IsNa(cell) == cell.k \in {"null", "none"}

\* the CSV tokens that read as numbers, with their values in tenths
NumOf == ("5" :> 50) @@ ("-3" :> -30) @@ ("-3.5" :> -35) @@ ("80" :> 800) @@ ("1500" :> 15000)

\* str(x) of a number of an int64 column and of a float64 column
StrOfInt == (50 :> "5") @@ (-30 :> "-3") @@ (800 :> "80") @@ (15000 :> "1500")
StrOfFloat == (50 :> "5.0") @@ (-30 :> "-3.0") @@ (-35 :> "-3.5") @@ (800 :> "80.0")
              @@ (15000 :> "1500.0")

\* the strptime format that parses a token
FormatOf == ("2025-01-10" :> "%Y-%m-%d") @@ ("10/01/2099" :> "%d/%m/%Y")

\* the timestamps later than pd.Timestamp.now()
FutureStamps == {"10/01/2099"}

\* the largest number of data rows of an uploaded file
MaxFileRows == 2

\* the kinds of data row: a token for each field of the upload
RowKinds ==
    {[date |-> "2025-01-10", name |-> "Bench Press", weight |-> "80", reps |-> "5",
      notes |-> "pr"],
     [date |-> "10/01/2099", name |-> "", weight |-> "abc", reps |-> "-3", notes |-> ""],
     [date |-> "soon", name |-> "Squat", weight |-> "1500", reps |-> "-3.5", notes |-> "pr"],
     [date |-> "", name |-> "Bench Press", weight |-> "", reps |-> "x", notes |-> "pr"]}

\* the header rows of the uploads: each header with the field its cells hold
HeaderRows ==
    {<<[h |-> "Date", f |-> "date"], [h |-> "Exercise", f |-> "name"],
       [h |-> "Weight (kg)", f |-> "weight"], [h |-> "Reps", f |-> "reps"]>>,
     <<[h |-> "date", f |-> "date"], [h |-> "exercise_name", f |-> "name"],
       [h |-> "weight_kg", f |-> "weight"], [h |-> "reps", f |-> "reps"],
       [h |-> "notes", f |-> "notes"]>>,
     <<[h |-> "Reps Count", f |-> "reps"], [h |-> "reps", f |-> "reps"],
       [h |-> "EXERCISE", f |-> "name"], [h |-> "DATE", f |-> "date"],
       [h |-> "weight_kg", f |-> "weight"]>>,
     <<[h |-> "Date", f |-> "date"], [h |-> "exercise_name", f |-> "name"],
       [h |-> "reps", f |-> "reps"]>>,
     <<[h |-> "Exercise_Name", f |-> "name"], [h |-> "datetime", f |-> "date"],
       [h |-> "Weight_KG", f |-> "weight"], [h |-> "REPS", f |-> "reps"],
       [h |-> "RPE", f |-> "reps"]>>}

\* the uploads: a file that cannot be read, or a header row and data rows of tokens
Files ==
    {[readable |-> FALSE, headers |-> <<>>, rows |-> <<>>]}
    \cup {[readable |-> TRUE,
           headers |-> [i \in 1..Len(hr) |-> hr[i].h],
           rows |-> [r \in 1..Len(kinds) |-> [i \in 1..Len(hr) |-> kinds[r][hr[i].f]]]] :
            hr \in HeaderRows, kinds \in UNION {[1..n -> RowKinds] : n \in 0..MaxFileRows}}

\* the schema of the spec's end-to-end scenario, with an optional column that falls back
\* to a text and one that falls back to null
ColumnsA ==
    [required_columns |->
        <<[name |-> "date", type |-> "datetime", aliases |-> <<"Date", "date">>,
           formats |-> <<"%Y-%m-%d", "%d/%m/%Y">>],
          [name |-> "exercise_name", type |-> "string",
           aliases |-> <<"Exercise", "exercise_name">>],
          [name |-> "weight_kg", type |-> "float", aliases |-> <<"Weight (kg)", "weight_kg">>,
           validation |-> [min |-> 0, max |-> 1000]],
          [name |-> "reps", type |-> "integer", aliases |-> <<"Reps Count", "Reps">>,
           validation |-> [min |-> 0]]>>,
     optional_columns |->
        <<[name |-> "notes", type |-> "string", aliases |-> <<"Notes", "notes">>,
           default |-> Text("none")],
          [name |-> "rpe", type |-> "float", validation |-> [max |-> 10]]>>]

\* a schema whose timestamp column is called datetime, with a column without aliases and
\* an alias shared by two columns
ColumnsB ==
    [required_columns |->
        <<[name |-> "datetime", type |-> "datetime", aliases |-> <<"Date", "datetime">>,
           formats |-> <<"%d/%m/%Y">>],
          [name |-> "exercise_name", type |-> "string", aliases |-> <<"Exercise">>],
          [name |-> "reps", type |-> "integer", validation |-> [min |-> 0, max |-> 5]]>>,
     optional_columns |->
        <<[name |-> "workout_name", type |-> "string", aliases |-> <<"Workout", "Exercise">>],
          [name |-> "weight_kg", type |-> "float", aliases |-> <<"weight_kg">>,
           default |-> Num(0), validation |-> [min |-> 0]]>>]

\* a schema in which an optional column takes the header of a required column as one
\* of its aliases
ColumnsC ==
    [required_columns |->
        <<[name |-> "date", type |-> "datetime", aliases |-> <<"Date", "date">>,
           formats |-> <<"%Y-%m-%d">>],
          [name |-> "exercise_name", type |-> "string",
           aliases |-> <<"exercise_name", "Exercise">>]>>,
     optional_columns |->
        <<[name |-> "workout_name", type |-> "string",
           aliases |-> <<"Workout", "exercise_name">>, default |-> Text("none")]>>]

\* the schemas: the columns above under the flags strict_mode and case_sensitive
Schemas ==
    {ColumnsA,
     ColumnsA @@ [strict_mode |-> TRUE, case_sensitive |-> TRUE],
     ColumnsB @@ [strict_mode |-> TRUE],
     ColumnsB @@ [strict_mode |-> FALSE, case_sensitive |-> TRUE],
     ColumnsC}

\* {**required_columns, **optional_columns}, in the order of the dict
AllColumns(sch) == sch.required_columns \o Get(sch, "optional_columns", <<>>)

\* the names of a list of column configurations
ColumnNames(cols) == [i \in 1..Len(cols) |-> cols[i].name]

(***************************************************************************)
(* CSVParser: the DataFrame                                                *)
(***************************************************************************)
\* col in df.columns
HasColumn(df, col) == \E i \in 1..Len(df.columns) : df.columns[i] = col

\* the positions of the columns called col (more than one after a rename onto an
\* existing header)
Positions(df, col) == {i \in 1..Len(df.columns) : df.columns[i] = col}

\* df[col] when one column has that name
Column(df, col) == df.cols[CHOOSE i \in Positions(df, col) : TRUE]

\* df[col] = series, for a column that exists once or not at all
Assign(df, col, series) ==
    IF HasColumn(df, col)
    THEN [df EXCEPT !.cols = [i \in 1..Len(df.cols) |->
                                 IF df.columns[i] = col THEN series ELSE df.cols[i]]]
    ELSE [df EXCEPT !.columns = Append(df.columns, col), !.cols = Append(df.cols, series)]

\* the dtype pd.read_csv infers for a column of tokens and the cells it holds: a column
\* of numbers and blanks is numeric (int64 without blanks and fractions, else float64),
\* any other column holds its non-blank tokens as text
ReadColumn(tokens) ==
    LET numeric == \A i \in 1..Len(tokens) : tokens[i] = "" \/ tokens[i] \in DOMAIN NumOf
        whole == \A i \in 1..Len(tokens) :
                     tokens[i] \in DOMAIN NumOf /\ NumOf[tokens[i]] % 10 = 0
    IN  IF numeric
        THEN [dtype |-> IF whole THEN "int64" ELSE "float64",
              cells |-> [i \in 1..Len(tokens) |->
                            IF tokens[i] = "" THEN Null ELSE Num(NumOf[tokens[i]])]]
        ELSE [dtype |-> "object",
              cells |-> [i \in 1..Len(tokens) |->
                            IF tokens[i] = "" THEN Null ELSE Text(tokens[i])]]

\* pd.read_csv(file) of a readable file
ReadCsv(file) ==
    [nrows |-> Len(file.rows),
     columns |-> file.headers,
     cols |-> [j \in 1..Len(file.headers) |->
                  ReadColumn([i \in 1..Len(file.rows) |-> file.rows[i][j]])]]

(***************************************************************************)
(* CSVParser: the steps of parse_csv.  A step takes and returns the run     *)
(* state st = [df, errors, warnings, column_mappings, raised]; raised names *)
(* the exception that left the step, "" when none did.                      *)
(***************************************************************************)
\* an entry of the error list or of the warning list: what it reports, the column it
\* names, the count it states and the names or the value it lists (as cells)
Finding(kind, col, n, arg) == [kind |-> kind, col |-> col, n |-> n, arg |-> arg]

\* col_compare == alias_compare under the case policy of the schema
SameHeader(sch, col, alias) ==
    IF Get(sch, "case_sensitive", FALSE)
    THEN col = alias
    ELSE Lower(Chars(col)) = Lower(Chars(alias))

\* the first header, in the order of the file, that equals one of the aliases: 0 when
\* none does
FirstMatch(sch, col_config, df_columns) ==
    LET aliases == Get(col_config, "aliases", <<col_config.name>>)
        hits == {i \in 1..Len(df_columns) :
                    \E a \in 1..Len(aliases) : SameHeader(sch, df_columns[i], aliases[a])}
    IN  IF hits = {} THEN 0 ELSE CHOOSE i \in hits : \A j \in hits : i <= j

\* the loops of _map_columns over the canonical columns: acc = [mapped_columns,
\* column_mappings]
RECURSIVE MapLoop(_, _, _, _)
MapLoop(sch, col_configs, df_columns, acc) ==
    IF col_configs = <<>> THEN acc
    ELSE LET col_config == Head(col_configs)
             i == FirstMatch(sch, col_config, df_columns)
         IN  MapLoop(sch, Tail(col_configs), df_columns,
                     IF i = 0 THEN acc
                     ELSE [mapped_columns |-> Put(acc.mapped_columns, df_columns[i], col_config.name),
                           column_mappings |-> Put(acc.column_mappings, col_config.name,
                                                   df_columns[i])])

\* CSVParser._map_columns
MapColumns(sch, st) ==
    LET acc == MapLoop(sch, AllColumns(sch), st.df.columns,
                       [mapped_columns |-> EmptyDict, column_mappings |-> st.column_mappings])
    IN  [st EXCEPT !.df.columns = [i \in 1..Len(st.df.columns) |->
                                      Get(acc.mapped_columns, st.df.columns[i],
                                          st.df.columns[i])],
                   !.column_mappings = acc.column_mappings]

\* a presence check that reports every missing column by an error of its own
ValidateRequiredColumns_PerColumn(sch, st) ==
    LET Missing(col) == ~HasColumn(st.df, col)
        missing_cols == SelectSeq(ColumnNames(sch.required_columns), Missing)
    IN  [st EXCEPT !.errors = @ \o [i \in 1..Len(missing_cols) |->
                                       Finding("MissingRequired", "", 1,
                                               <<Text(missing_cols[i])>>)]]

\* CSVParser._validate_required_columns
ValidateRequiredColumns(sch, st) ==
    LET Missing(col) == ~HasColumn(st.df, col)
        missing_cols == SelectSeq(ColumnNames(sch.required_columns), Missing)
    IN  IF missing_cols # <<>>
        THEN [st EXCEPT !.errors = Append(@, Finding("MissingRequired", "", Len(missing_cols),
                                                      [i \in 1..Len(missing_cols) |->
                                                          Text(missing_cols[i])]))]
        ELSE st

\* df[col_name] = default_value: the scalar in every row
DefaultColumn(nrows, default_value) ==
    [dtype |-> IF default_value.k = "num"
               THEN (IF default_value.v % 10 = 0 THEN "int64" ELSE "float64")
               ELSE "object",
     cells |-> [i \in 1..nrows |-> default_value]]

\* the loop of _add_optional_columns
RECURSIVE AddOptionalLoop(_, _)
AddOptionalLoop(col_configs, st) ==
    IF col_configs = <<>> THEN st
    ELSE LET col_config == Head(col_configs)
             default_value == Get(col_config, "default", PyNone)
         IN  AddOptionalLoop(Tail(col_configs),
                 IF HasColumn(st.df, col_config.name) THEN st
                 ELSE [st EXCEPT
                          !.df = Assign(st.df, col_config.name,
                                        DefaultColumn(st.df.nrows, default_value)),
                          !.warnings =
                              IF default_value # PyNone
                              THEN Append(@, Finding("DefaultAdded", col_config.name, 0,
                                                     <<default_value>>))
                              ELSE @])

\* CSVParser._add_optional_columns
AddOptionalColumns(sch, st) == AddOptionalLoop(Get(sch, "optional_columns", <<>>), st)

\* more than one column of df is called col, so that df[col] is a DataFrame
Duplicated(df, col) == Cardinality(Positions(df, col)) > 1

\* mask.sum(), len(df[mask]): the number of rows that a boolean mask selects
CountRows(mask) == Cardinality({i \in 1..Len(mask) : mask[i]})

\* pd.to_datetime(series, format=fmt, errors='coerce') on one cell
Strptime(cell, fmt) ==
    IF cell.k = "text" /\ cell.v \in DOMAIN FormatOf /\ FormatOf[cell.v] = fmt
    THEN Ts(cell.v) ELSE Null

\* pd.to_datetime(series, errors='coerce') on one cell of a column whose dates are
\* written in one way
AutoParse(cell) ==
    IF cell.k = "text" /\ cell.v \in DOMAIN FormatOf THEN Ts(cell.v) ELSE Null

\* the loop of _parse_datetime over the formats: the cells under the first format that
\* parses one of them, <<>> when no format does
RECURSIVE TryFormats(_, _)
TryFormats(cells, formats) ==
    IF formats = <<>> THEN <<>>
    ELSE LET parsed == [i \in 1..Len(cells) |-> Strptime(cells[i], Head(formats))]
         IN  IF \E i \in 1..Len(parsed) : ~IsNa(parsed[i])
             THEN parsed
             ELSE TryFormats(cells, Tail(formats))

\* CSVParser._parse_datetime
ParseDatetime(series, col_config) ==
    LET formats == Get(col_config, "formats", <<"%Y-%m-%d %H:%M:%S">>)
        parsed == TryFormats(series.cells, formats)
    IN  [dtype |-> "datetime64",
         cells |-> IF parsed # <<>> THEN parsed
                   ELSE [i \in 1..Len(series.cells) |-> AutoParse(series.cells[i])]]

\* pd.to_numeric(series, errors='coerce') on one cell
ToNumeric(cell) ==
    IF cell.k = "num" THEN cell
    ELSE IF cell.k = "text" /\ cell.v \in DOMAIN NumOf THEN Num(NumOf[cell.v])
    ELSE Null

\* series.astype(str).replace('nan', '') on one cell
AsString(dtype, cell) ==
    IF cell.k = "num"
    THEN Text(IF dtype = "int64" THEN StrOfInt[cell.v] ELSE StrOfFloat[cell.v])
    ELSE IF cell.k = "null" THEN Text("")
    ELSE IF cell.k = "none" THEN Text("None")
    ELSE cell

\* the try block of _validate_data_types for one column that is in the table
ConvertColumn(st, col_config) ==
    LET col_name == col_config.name
        dtype == Get(col_config, "type", None)
        series == Column(st.df, col_name)
        numeric == [i \in 1..Len(series.cells) |-> ToNumeric(series.cells[i])]
        null_count == CountRows([i \in 1..Len(numeric) |-> IsNa(numeric[i])])
        failed == [st EXCEPT !.errors = Append(@, Finding("ConvertError", col_name, 0,
                                                          <<Text(dtype)>>))]
    IN  IF dtype = "string"
        THEN [st EXCEPT !.df.cols =
                 [j \in 1..Len(st.df.cols) |->
                     IF st.df.columns[j] = col_name
                     THEN [dtype |-> "object",
                           cells |-> [i \in 1..Len(st.df.cols[j].cells) |->
                                         AsString(st.df.cols[j].dtype,
                                                  st.df.cols[j].cells[i])]]
                     ELSE st.df.cols[j]]]
        ELSE IF dtype \notin {"datetime", "integer", "float"} THEN st
        ELSE IF Duplicated(st.df, col_name) THEN failed
        ELSE IF dtype = "datetime"
        THEN [st EXCEPT !.df = Assign(st.df, col_name, ParseDatetime(series, col_config))]
        ELSE IF dtype = "integer" /\ \E i \in 1..Len(numeric) :
                                        numeric[i].k = "num" /\ numeric[i].v % 10 # 0
        THEN failed
        ELSE [st EXCEPT
                 !.df = Assign(st.df, col_name,
                               [dtype |-> IF dtype = "integer" THEN "Int64"
                                          ELSE IF series.dtype = "int64" THEN "int64"
                                          ELSE "float64",
                                cells |-> numeric]),
                 !.errors = IF null_count > 0
                            THEN Append(@, Finding(IF dtype = "integer" THEN "NotInteger"
                                                   ELSE "NotFloat", col_name, null_count,
                                                   <<>>))
                            ELSE @]

\* the loop of _validate_data_types
RECURSIVE ConvertLoop(_, _)
ConvertLoop(col_configs, st) ==
    IF col_configs = <<>> THEN st
    ELSE ConvertLoop(Tail(col_configs),
                     IF HasColumn(st.df, Head(col_configs).name)
                     THEN ConvertColumn(st, Head(col_configs))
                     ELSE st)

\* CSVParser._validate_data_types
ValidateDataTypes(sch, st) == ConvertLoop(AllColumns(sch), st)

\* df[col] < x or df[col] > x raises TypeError: a column of timestamps or of texts is
\* compared with a number
CompareRaises(series) ==
    \/ series.dtype = "datetime64"
    \/ series.dtype = "object" /\ \E i \in 1..Len(series.cells) : series.cells[i].k = "text"

\* the min check (key = "min") or the max check (key = "max") of one column; under a
\* duplicated name df[col_name] is a DataFrame and the boolean frame does not select
\* rows of df: the lookup raises
CheckBound(st, col_name, validation, key) ==
    IF st.raised # "" \/ key \notin DOMAIN validation THEN st
    ELSE IF Duplicated(st.df, col_name) THEN [st EXCEPT !.raised = "ValueError"]
    ELSE IF CompareRaises(Column(st.df, col_name)) THEN [st EXCEPT !.raised = "TypeError"]
    ELSE LET Outside(cell) ==
                 /\ cell.k = "num"
                 /\ IF key = "min" THEN cell.v < validation[key] * 10
                    ELSE cell.v > validation[key] * 10
             cells == Column(st.df, col_name).cells
             n == CountRows([i \in 1..Len(cells) |-> Outside(cells[i])])
         IN  IF n > 0
             THEN [st EXCEPT !.errors =
                      Append(@, Finding(IF key = "min" THEN "BelowMin" ELSE "AboveMax",
                                        col_name, n, <<Num(validation[key] * 10)>>))]
             ELSE st

\* a null check that drops the rows with a null in the column
CheckNulls_DropRows(sch, st, col_name) ==
    IF st.raised # "" \/ Duplicated(st.df, col_name) THEN st
    ELSE LET cells == Column(st.df, col_name).cells
             kept == {i \in 1..Len(cells) : ~IsNa(cells[i])}
             Nth(n) == CHOOSE i \in kept : Cardinality({j \in kept : j < i}) = n - 1
         IN  [st EXCEPT !.df.nrows = Cardinality(kept),
                        !.df.cols = [j \in 1..Len(st.df.cols) |->
                                        [dtype |-> st.df.cols[j].dtype,
                                         cells |-> [n \in 1..Cardinality(kept) |->
                                                       st.df.cols[j].cells[Nth(n)]]]]]

\* the null check of one column, made for the required columns
CheckNulls(sch, st, col_name) ==
    IF st.raised # "" \/ ~\E i \in 1..Len(sch.required_columns) :
                            sch.required_columns[i].name = col_name
    THEN st
    ELSE IF Duplicated(st.df, col_name) THEN [st EXCEPT !.raised = "ValueError"]
    ELSE LET cells == Column(st.df, col_name).cells
             null_count == CountRows([i \in 1..Len(cells) |-> IsNa(cells[i])])
         IN  IF null_count > 0
             THEN [st EXCEPT !.errors = Append(@, Finding("NullValues", col_name,
                                                          null_count, <<>>))]
             ELSE st

\* the loop of _validate_constraints over the canonical columns
RECURSIVE ConstraintLoop(_, _, _)
ConstraintLoop(sch, col_configs, st) ==
    IF col_configs = <<>> \/ st.raised # "" THEN st
    ELSE LET col_name == Head(col_configs).name
             validation == Get(Head(col_configs), "validation", EmptyDict)
         IN  ConstraintLoop(sch, Tail(col_configs),
                 IF ~HasColumn(st.df, col_name) THEN st
                 ELSE CheckNulls(sch,
                                 CheckBound(CheckBound(st, col_name, validation, "min"),
                                            col_name, validation, "max"),
                                 col_name))

\* the check for dates in the future, made on a column called datetime
CheckFuture(st) ==
    IF st.raised # "" \/ ~HasColumn(st.df, "datetime") THEN st
    ELSE IF Duplicated(st.df, "datetime") THEN [st EXCEPT !.raised = "ValueError"]
    ELSE LET series == Column(st.df, "datetime")
             IsFuture(cell) == cell.k = "ts" /\ cell.v \in FutureStamps
             n == CountRows([i \in 1..Len(series.cells) |-> IsFuture(series.cells[i])])
         IN  IF series.dtype \in {"int64", "float64", "Int64"}
                \/ \E i \in 1..Len(series.cells) : series.cells[i].k \in {"text", "num"}
             THEN [st EXCEPT !.raised = "TypeError"]
             ELSE IF n > 0
             THEN [st EXCEPT !.warnings = Append(@, Finding("FutureDates", "datetime", n,
                                                            <<>>))]
             ELSE st

\* CSVParser._validate_constraints
ValidateConstraints(sch, st) == CheckFuture(ConstraintLoop(sch, AllColumns(sch), st))

(***************************************************************************)
(* CSVParser.parse_csv                                                     *)
(***************************************************************************)
\* the table of a call that returns none
NoFrame == [nrows |-> 0, columns |-> <<>>, cols |-> <<>>]

\* a reset that keeps the error list of the earlier calls
ParseEntry_KeepErrors(errs, warns, mappings) ==
    [errors |-> errs, warnings |-> <<>>, column_mappings |-> EmptyDict]

\* self.errors = [], self.warnings = [], self.column_mappings = {}: the lists a call
\* starts from, given the lists the earlier calls left
ParseEntry(errs, warns, mappings) ==
    [errors |-> <<>>, warnings |-> <<>>, column_mappings |-> EmptyDict]

\* an emptiness test that lets every table through
DfEmpty_Never(df) == FALSE

\* df.empty
DfEmpty(df) == df.nrows = 0 \/ df.columns = <<>>

\* a validation that checks the constraints before it converts the types
Validate_ConstraintsFirst(sch, df, entry) ==
    ValidateDataTypes(sch,
        ValidateConstraints(sch,
            AddOptionalColumns(sch,
                ValidateRequiredColumns(sch,
                    MapColumns(sch, [df |-> df, errors |-> entry.errors,
                                     warnings |-> entry.warnings,
                                     column_mappings |-> entry.column_mappings,
                                     raised |-> ""])))))

\* the steps from _map_columns to _validate_constraints on the table read
Validate(sch, df, entry) ==
    ValidateConstraints(sch,
        ValidateDataTypes(sch,
            AddOptionalColumns(sch,
                ValidateRequiredColumns(sch,
                    MapColumns(sch, [df |-> df, errors |-> entry.errors,
                                     warnings |-> entry.warnings,
                                     column_mappings |-> entry.column_mappings,
                                     raised |-> ""])))))

\* a gate that ignores strict_mode
StrictGate_AnyMode(sch, errs) == errs # <<>>

\* the condition under which the call raises "Validation failed"
StrictGate(sch, errs) == Get(sch, "strict_mode", FALSE) /\ errs # <<>>

\* the lists the call leaves and the way it ends: out = [status, df, message]
Outcome(st, status, df, message) ==
    [errors |-> st.errors, warnings |-> st.warnings, column_mappings |-> st.column_mappings,
     out |-> [status |-> status, df |-> df, message |-> message]]

\* parse_csv on a file, from the lists after the reset
Pipeline(sch, file, entry) ==
    IF ~file.readable THEN Outcome(entry, "ReadFailed", NoFrame, <<>>)
    ELSE IF DfEmpty(ReadCsv(file)) THEN Outcome(entry, "EmptyInput", NoFrame, <<>>)
    ELSE LET st == Validate(sch, ReadCsv(file), entry)
         IN  IF st.raised # "" THEN Outcome(st, st.raised, NoFrame, <<>>)
             ELSE IF StrictGate(sch, st.errors)
             THEN Outcome(st, "ValidationFailed", NoFrame, st.errors)
             ELSE Outcome(st, "returned", st.df, <<>>)

\* CSVParser.parse_csv
ParseCsv(file) ==
    \E run \in {Pipeline(schema, file, ParseEntry(errors, warnings, column_mappings))} :
        /\ errors' = run.errors
        /\ warnings' = run.warnings
        /\ column_mappings' = run.column_mappings
        /\ pfile' = file
        /\ pout' = run.out
        /\ pbefore' = (pout.status \notin {"init", "returned"} /\ errors # <<>>)
        /\ UNCHANGED schema

Parse == \E file \in Files : ParseCsv(file)

\* one parser instance, any sequence of parse_csv calls
InitParse ==
    /\ \E sch \in Schemas : InitParser(sch)
    /\ InitClassifier(CfgD)
    /\ InitViewManager({}, {})
NextParse == Parse /\ UNCHANGED <<evars, vwvars>>
SpecParse == InitParse /\ [][NextParse]_vars

(***************************************************************************)
(* What the claims on parse_csv speak of                                   *)
(***************************************************************************)
\* a parse_csv call has been made
Parsed == pout.status # "init"

\* the lists of a parser on which no call was made
FreshLists == [errors |-> <<>>, warnings |-> <<>>, column_mappings |-> EmptyDict]

\* what a parser on which no call was made does with the file
FreshRun(sch, file) == Pipeline(sch, file, FreshLists)

\* C1: a call that reaches the end of validation raises "Validation failed" exactly
\* when strict_mode is set and the error list is not empty, and the exception then
\* carries the error list; in every other case it returns the normalized table,
\* whatever the error list holds
C1_StrictModeGate ==
    pout.status \in {"returned", "ValidationFailed"} =>
        /\ pout.status = "ValidationFailed"
               <=> (Get(schema, "strict_mode", FALSE) /\ errors # <<>>)
        /\ pout.status = "ValidationFailed" => pout.message = errors /\ pout.df = NoFrame
        /\ pout.status = "returned" => pout.df = FreshRun(schema, pfile).out.df
                                       /\ pout.df # NoFrame

\* a strict parser raised "Validation failed" with more than one message
C1_Witness ==
    /\ pout.status = "ValidationFailed"
    /\ Get(schema, "strict_mode", FALSE)
    /\ Len(pout.message) > 1

\* C4: after any sequence of parse_csv calls on one parser, failed calls included, the
\* error list, the warning list and the column mappings are those that the last call
\* alone produces
C4_ListsHoldLastCallOnly ==
    IF Parsed
    THEN /\ errors = FreshRun(schema, pfile).errors
         /\ warnings = FreshRun(schema, pfile).warnings
         /\ column_mappings = FreshRun(schema, pfile).column_mappings
    ELSE errors = <<>> /\ warnings = <<>> /\ column_mappings = EmptyDict

\* a call that raised and left errors was followed by a call that returned with a
\* warning, mapped columns and no error
C4_Witness ==
    /\ pbefore
    /\ pout.status = "returned"
    /\ errors = <<>>
    /\ warnings # <<>>
    /\ column_mappings # EmptyDict

\* C10: parse_csv of a table without data rows raises "CSV file is empty" and leaves
\* the error list, the warning list and the column mappings empty: no column was
\* mapped and no check was made
C10_EmptyInputFailsFirst ==
    (Parsed /\ pfile.readable /\ Len(pfile.rows) = 0) =>
        /\ pout.status = "EmptyInput"
        /\ pout.df = NoFrame
        /\ errors = <<>>
        /\ warnings = <<>>
        /\ column_mappings = EmptyDict

\* a header row without data rows was parsed after a call that left errors
C10_Witness ==
    /\ pbefore
    /\ pfile.readable
    /\ Len(pfile.headers) > 0
    /\ Len(pfile.rows) = 0
    /\ pout.status = "EmptyInput"

\* the table was read and is not empty: the call went on to map the columns
Mapped == Parsed /\ pout.status \notin {"ReadFailed", "EmptyInput"}

\* the call returned the table
Returned == pout.status = "returned"

\* the kinds of the entries of a list of findings
Kinds(list) == {list[i].kind : i \in 1..Len(list)}

\* the cell is what a conversion makes of the token: the token as text, number or
\* timestamp, or a missing value
CellOfToken(cell, token) ==
    \/ cell.k = "null"
    \/ cell.k \in {"text", "ts"} /\ cell.v = token
    \/ cell.k = "num" /\ token \in DOMAIN NumOf /\ NumOf[token] = cell.v

\* C11: a call that returns gives a table with as many rows as the file has data rows, in
\* the order of the file: row i of every column read from the file holds what the
\* conversions make of row i of the file, and the added columns have the same length
C11_RowsPreserved ==
    Returned =>
        /\ pout.df.nrows = Len(pfile.rows)
        /\ \A j \in 1..Len(pout.df.cols) : Len(pout.df.cols[j].cells) = Len(pfile.rows)
        /\ \A j \in 1..Len(pfile.headers) : \A i \in 1..Len(pfile.rows) :
               CellOfToken(pout.df.cols[j].cells[i], pfile.rows[i][j])

\* a table of the largest size was returned although cells could not be converted,
\* were out of range and were null
C11_Witness ==
    /\ Returned
    /\ pout.df.nrows = MaxFileRows
    /\ {"NotFloat", "BelowMin", "AboveMax", "NullValues"} \subseteq Kinds(errors)

\* the headers of the file after _map_columns
MappedHeaders(sch, file) ==
    MapColumns(sch, [df |-> ReadCsv(file), errors |-> <<>>, warnings |-> <<>>,
                     column_mappings |-> EmptyDict, raised |-> ""]).df.columns

\* the items of a list
Items(list) == {list[i] : i \in 1..Len(list)}

\* the canonical required columns that no header of the file bears after the mapping
MissingRequired(sch, file) ==
    LET Absent(col) == col \notin Items(MappedHeaders(sch, file))
    IN  SelectSeq(ColumnNames(sch.required_columns), Absent)

\* the entries of a list that are of a kind
OfKind(list, kind) ==
    LET Is(e) == e.kind = kind
    IN  SelectSeq(list, Is)

\* C12: when k >= 1 required columns are absent after the mapping, the error list holds
\* exactly one entry on missing columns, which lists the k names together; when none is
\* absent it holds no such entry
C12_OneErrorForMissingColumns ==
    Mapped =>
        LET missing == MissingRequired(schema, pfile)
            reports == OfKind(errors, "MissingRequired")
        IN  IF missing = <<>>
            THEN reports = <<>>
            ELSE /\ Len(reports) = 1
                 /\ reports[1].n = Len(missing)
                 /\ reports[1].arg = [i \in 1..Len(missing) |-> Text(missing[i])]

\* a file that lacks more than one required column was parsed
C12_Witness ==
    /\ Mapped
    /\ Len(MissingRequired(schema, pfile)) > 1
    /\ \E i \in 1..Len(errors) : errors[i].kind = "MissingRequired" /\ errors[i].n > 1

\* the optional columns that no header of the file bears after the mapping: those that
\* _add_optional_columns inserts
Defaulted(sch, file) ==
    LET Absent(col_config) == col_config.name \notin Items(MappedHeaders(sch, file))
    IN  Items(SelectSeq(Get(sch, "optional_columns", <<>>), Absent))

\* the cell holds the configured default: the default value, or a missing value when the
\* default is null
HoldsDefault(cell, default_value) ==
    IF default_value = PyNone THEN IsNa(cell) ELSE cell = default_value

\* the entries of a list that name a column
OnColumn(list, col) ==
    LET Is(e) == e.col = col
    IN  SelectSeq(list, Is)

\* C13: an optional column that is absent after the mapping is in the returned table
\* with its configured default in every row, and the call leaves exactly one warning
\* on that column when the default is not null and none when it is null
C13_AbsentOptionalGetsDefault ==
    Mapped =>
        \A col_config \in Defaulted(schema, pfile) :
            /\ Len(OnColumn(warnings, col_config.name))
                   = IF Get(col_config, "default", PyNone) # PyNone THEN 1 ELSE 0
            /\ Returned =>
                   /\ HasColumn(pout.df, col_config.name)
                   /\ \A i \in 1..pout.df.nrows :
                          HoldsDefault(Column(pout.df, col_config.name).cells[i],
                                       Get(col_config, "default", PyNone))

\* C14: the insertion of an absent optional column, whatever its default and its type,
\* and the finding of dates in the future leave entries in the warning list only: no
\* entry of the error list names an inserted column or reports future dates, so that
\* they never make a strict call raise "Validation failed"
C14_AdvisoryFindingsNeverBlock ==
    Mapped =>
        \A i \in 1..Len(errors) :
            /\ errors[i].kind # "FutureDates"
            /\ \A col_config \in Defaulted(schema, pfile) : errors[i].col # col_config.name

\* the data rows of the file in which a column that bears the canonical name after the
\* mapping holds a number below the bound (key = "min") or above it (key = "max")
ViolatingRows(sch, file, col_name, key, bound) ==
    {i \in 1..Len(file.rows) :
        \E j \in 1..Len(file.headers) :
            /\ MappedHeaders(sch, file)[j] = col_name
            /\ file.rows[i][j] \in DOMAIN NumOf
            /\ IF key = "min" THEN NumOf[file.rows[i][j]] < bound * 10
               ELSE NumOf[file.rows[i][j]] > bound * 10}

\* C15: for every column with a min or a max bound, the rows that violate the bound are
\* reported by exactly one entry of the error list for that bound, whose count is the
\* number of violating rows; a bound that no row violates has no entry
C15_OneErrorPerViolatedBound ==
    Mapped =>
        \A c \in 1..Len(AllColumns(schema)) :
            LET col_config == AllColumns(schema)[c]
                validation == Get(col_config, "validation", EmptyDict)
            IN  \A key \in DOMAIN validation :
                    LET rows == ViolatingRows(schema, pfile, col_config.name, key,
                                              validation[key])
                        reports == OfKind(OnColumn(errors, col_config.name),
                                          IF key = "min" THEN "BelowMin" ELSE "AboveMax")
                    IN  IF rows = {}
                        THEN reports = <<>>
                        ELSE Len(reports) = 1 /\ reports[1].n = Cardinality(rows)

\* the canonical columns, by their place in the order of declaration (required before
\* optional), whose first matching header is header j of the file
Claimants(sch, file, j) ==
    {c \in 1..Len(AllColumns(sch)) : FirstMatch(sch, AllColumns(sch)[c], file.headers) = j}

\* C16: one mapping pass gives a header to at most one canonical column; a header that
\* matches aliases of two canonical columns goes to the one declared first; and the
\* recorded column mappings are the renaming applied to the table
C16_MappingIsOneToOne ==
    Mapped =>
        /\ \A c1, c2 \in DOMAIN column_mappings :
               column_mappings[c1] = column_mappings[c2] => c1 = c2
        /\ \A j \in 1..Len(pfile.headers) :
               Claimants(schema, pfile, j) # {} =>
                   MappedHeaders(schema, pfile)[j]
                       = AllColumns(schema)[Least(Claimants(schema, pfile, j))].name
        /\ \A c \in DOMAIN column_mappings : \A j \in 1..Len(pfile.headers) :
               pfile.headers[j] = column_mappings[c] => MappedHeaders(schema, pfile)[j] = c

\* the header equals one of the aliases declared for the column, under the case policy
\* of the schema
MatchesAlias(sch, col_config, header) ==
    LET aliases == Get(col_config, "aliases", <<col_config.name>>)
    IN  \E a \in 1..Len(aliases) :
            IF Get(sch, "case_sensitive", FALSE)
            THEN header = aliases[a]
            ELSE Lower(Chars(header)) = Lower(Chars(aliases[a]))

\* C17: wherever it stands among the headers, the first header that equals a declared
\* alias of a canonical column, without regard to case unless case_sensitive is set,
\* is mapped to that column: it bears the canonical name in the table and is the header
\* recorded for it
C17_MatchingHeaderIsMapped ==
    Mapped =>
        \A c \in 1..Len(AllColumns(schema)) : \A j \in 1..Len(pfile.headers) :
            (/\ MatchesAlias(schema, AllColumns(schema)[c], pfile.headers[j])
             /\ \A i \in 1..(j - 1) :
                    ~MatchesAlias(schema, AllColumns(schema)[c], pfile.headers[i]))
            => /\ MappedHeaders(schema, pfile)[j] = AllColumns(schema)[c].name
               /\ AllColumns(schema)[c].name \in DOMAIN column_mappings
               /\ column_mappings[AllColumns(schema)[c].name] = pfile.headers[j]

\* the header equals the canonical name of the column, under the case policy of the
\* schema
MatchesName(sch, col_config, header) ==
    IF Get(sch, "case_sensitive", FALSE)
    THEN header = col_config.name
    ELSE Lower(Chars(header)) = Lower(Chars(col_config.name))

\* C18: the canonical name is an alias of its column even when the configured alias
\* list does not hold it: the first header that equals the canonical name or an alias
\* of a column under the case policy bears the canonical name after the mapping
C18_CanonicalNameIsAlias ==
    Mapped =>
        \A c \in 1..Len(AllColumns(schema)) : \A j \in 1..Len(pfile.headers) :
            LET col_config == AllColumns(schema)[c]
                Matches(h) == MatchesName(schema, col_config, h)
                              \/ MatchesAlias(schema, col_config, h)
            IN  (/\ MatchesName(schema, col_config, pfile.headers[j])
                 /\ \A i \in 1..(j - 1) : ~Matches(pfile.headers[i]))
                => MappedHeaders(schema, pfile)[j] = col_config.name

\* the canonical names of the schema
CanonicalNames(sch) == Items(ColumnNames(AllColumns(sch)))

\* the headers that _map_columns gives to a table with the given headers and the data
\* rows of the file
Remapped(sch, file, headers) ==
    MappedHeaders(sch, [readable |-> TRUE, headers |-> headers, rows |-> file.rows])

\* C19: column mapping leaves a header that is a canonical name as it is, in the file
\* read as well as in a table that column mapping has produced
C19_MappingIsIdempotent ==
    Mapped =>
        /\ \A j \in 1..Len(pfile.headers) :
               pfile.headers[j] \in CanonicalNames(schema)
                   => MappedHeaders(schema, pfile)[j] = pfile.headers[j]
        /\ \A j \in 1..Len(pfile.headers) :
               MappedHeaders(schema, pfile)[j] \in CanonicalNames(schema)
                   => Remapped(schema, pfile, MappedHeaders(schema, pfile))[j]
                          = MappedHeaders(schema, pfile)[j]

\* the columns that enrich_dataframe adds
MuscleColumns == {"muscle_group_level1", "muscle_group_level2"}

\* C20: enrich_dataframe on a table without an exercise_name column raises the
\* missing-column error, and the table then has neither muscle_group_level1 nor
\* muscle_group_level2, in its columns or in any row
C20_EnrichNeedsExerciseName ==
    eout.op = "enrich" =>
        /\ eout.status = "ValueError" <=> "exercise_name" \notin edf.columns
        /\ eout.status = "ValueError" =>
               /\ edf.columns \cap MuscleColumns = {}
               /\ \A i \in 1..Len(edf.rows) : DOMAIN edf.rows[i] \cap MuscleColumns = {}

\* a table with rows and without exercise_name was handed to enrich_dataframe
C20_Witness ==
    /\ eout.op = "enrich"
    /\ eout.status = "ValueError"
    /\ "workout_name" \in edf.columns
    /\ Len(edf.rows) > 0

(***************************************************************************)
(* DataEnrichment: the queries, and enrich_dataframe on wider tables and   *)
(* on its own output                                                       *)
(***************************************************************************)
\* DataFrames with a column besides exercise_name
WideInputs ==
    {[columns |-> {"exercise_name", "workout_name"}, rows |-> r] :
        r \in UNION {[1..n -> {[exercise_name |-> x, workout_name |-> "Plank"] :
                                  x \in {"Leg Press", None}}] : n \in 0..MaxRows}}

\* enrich_dataframe on a wider table, or on the table the last call left
EnrichMore ==
    \E df \in WideInputs \cup {edf} :
        EnrichDataframe(df) /\ UNCHANGED <<config, exercise_lookup>>

\* a query returned value: what the instance keeps is left as it is
Answer(op, arg, status, value) ==
    /\ eout' = [op |-> op, arg |-> arg, status |-> status, value |-> value]
    /\ UNCHANGED <<config, exercise_lookup, exercise_cache, unmapped_exercises, ein, edf>>

\* DataEnrichment.get_unmapped_exercises
GetUnmappedExercises ==
    Answer("unmapped", None, "returned",
           {unmapped_exercises[i] : i \in 1..Len(unmapped_exercises)})

\* Series.value_counts().to_dict() of a column of the table
ValueCounts(df, col) ==
    [v \in {df.rows[i][col] : i \in 1..Len(df.rows)} |->
        Cardinality({i \in 1..Len(df.rows) : df.rows[i][col] = v})]

\* the dict that get_mapping_summary builds
MappingSummary(df, unmapped) ==
    IF "muscle_group_level1" \notin df.columns THEN EmptyDict
    ELSE [total_exercises |-> Len(df.rows),
          unique_exercises |->
              Cardinality({df.rows[i].exercise_name : i \in 1..Len(df.rows)} \ {None}),
          unmapped_count |-> Len(unmapped),
          unmapped_exercises |-> {unmapped[i] : i \in 1..Len(unmapped)},
          level1_distribution |-> ValueCounts(df, "muscle_group_level1"),
          level2_distribution |-> ValueCounts(df, "muscle_group_level2")]

\* DataEnrichment.get_mapping_summary(df), on the table handed to the last enrich call
\* as it was before and after the call
GetMappingSummary ==
    \E df \in {ein, edf} :
        Answer("summary", None, "returned", MappingSummary(df, unmapped_exercises))

\* a suggest_mapping that asks the classifier itself, which writes the memo and the
\* unmapped list
SuggestMapping_ViaClassifier(exercise_name) ==
    IF exercise_name = None
    THEN Answer("suggest", exercise_name, "AttributeError", <<>>)
    ELSE \E r \in {MapExerciseToMuscles(config, exercise_lookup,
                                         [cache |-> exercise_cache,
                                          unmapped |-> unmapped_exercises],
                                         exercise_name)} :
             /\ eout' = [op |-> "suggest", arg |-> exercise_name, status |-> "returned",
                         value |-> <<<<r.result[1], r.result[2], 3>>>>]
             /\ exercise_cache' = r.cache
             /\ unmapped_exercises' = r.unmapped
             /\ UNCHANGED <<config, exercise_lookup, ein, edf>>

\* a suggestion list that goes on to the fuzzy and default entries after an exact match
Suggestions_NoEarlyReturn(cfg, lookup, exercise_name) ==
    LET normalized == NormalizeName(exercise_name)
        exact == ExactMatch(lookup, normalized)
        fuzzy == FuzzyMatch(cfg, normalized)
        default == ApplyDefaultMapping(cfg)
    IN  (IF exact # NoMatch THEN <<<<exact[1], exact[2], 10>>>> ELSE <<>>)
        \o (IF fuzzy # NoMatch THEN <<<<fuzzy[1], fuzzy[2], 7>>>> ELSE <<>>)
        \o <<<<default[1], default[2], 3>>>>

\* the list that suggest_mapping builds: (level1, level2, confidence in tenths)
Suggestions(cfg, lookup, exercise_name) ==
    LET normalized == NormalizeName(exercise_name)
        exact == ExactMatch(lookup, normalized)
        fuzzy == FuzzyMatch(cfg, normalized)
        default == ApplyDefaultMapping(cfg)
    IN  IF exact # NoMatch
        THEN <<<<exact[1], exact[2], 10>>>>
        ELSE (IF fuzzy # NoMatch THEN <<<<fuzzy[1], fuzzy[2], 7>>>> ELSE <<>>)
             \o <<<<default[1], default[2], 3>>>>

\* DataEnrichment.suggest_mapping(exercise_name): None has no lower()
SuggestMapping(exercise_name) ==
    IF exercise_name = None
    THEN Answer("suggest", exercise_name, "AttributeError", <<>>)
    ELSE Answer("suggest", exercise_name, "returned",
                Suggestions(config, exercise_lookup, exercise_name))

\* the names handed to suggest_mapping
SuggestNames == NonBlankNames \cup {"", None}

Suggest == \E exercise_name \in SuggestNames : SuggestMapping(exercise_name)

\* one classifier instance, any sequence of enrich_dataframe calls and queries
NextClassifier ==
    (Enrich \/ EnrichMore \/ GetUnmappedExercises \/ GetMappingSummary \/ Suggest)
    /\ UNCHANGED <<pvars, vwvars>>
SpecClassifier == InitEnrich /\ [][NextClassifier]_vars

(***************************************************************************)
(* Claims about the classifier's calls and queries                         *)
(***************************************************************************)
\* what the classifier answers for a name when it has no memo
Uncached(name) ==
    MapExerciseToMuscles(config, exercise_lookup,
                         [cache |-> EmptyDict, unmapped |-> <<>>], name).result

\* C21: enrich_dataframe changes only muscle_group_level1 and muscle_group_level2: the
\* table it leaves has the rows of the table it was given, in the same number and order,
\* with every other column, exercise_name included, holding the same values
C21_OnlyMuscleColumnsChange ==
    "exercise_name" \in ein.columns =>
        /\ Len(edf.rows) = Len(ein.rows)
        /\ edf.columns = ein.columns \cup MuscleColumns
        /\ \A i \in 1..Len(ein.rows) : \A c \in ein.columns \ MuscleColumns :
               edf.rows[i][c] = ein.rows[i][c]

C21_Witness ==
    /\ EnrichReturned
    /\ ein.columns = {"exercise_name", "workout_name"}
    /\ Len(ein.rows) = 2
    /\ ein.rows[1].exercise_name = "Leg Press"
    /\ ein.rows[2].exercise_name = None
    /\ edf # ein

\* C22: enrich_dataframe applied to a table that an earlier enrich_dataframe call of the
\* same instance returned leaves every row with the level1 and level2 it already had
C22_EnrichIsIdempotent ==
    ("exercise_name" \in ein.columns /\ MuscleColumns \subseteq ein.columns) =>
        \A i \in 1..Len(ein.rows) : \A c \in MuscleColumns :
            edf.rows[i][c] = ein.rows[i][c]

C22_Witness ==
    /\ EnrichReturned
    /\ MuscleColumns \subseteq ein.columns
    /\ Len(ein.rows) = 2
    /\ ein.rows[1].exercise_name \in NonBlankNames
    /\ ein.rows[1].exercise_name \notin UnmappedSet
    /\ RowPair(1) # DefaultPair(config)

\* C25: the memo does not change an answer: every row holds the pair the classifier
\* gives for its exercise name without any memo, and so does every memo entry
C25_MemoIsTransparent ==
    /\ "exercise_name" \in ein.columns =>
           \A i \in ERows : RowPair(i) = Uncached(edf.rows[i].exercise_name)
    /\ \A name \in DOMAIN exercise_cache : exercise_cache[name] = Uncached(name)

C25_Witness ==
    /\ EnrichReturned
    /\ Len(edf.rows) = 2
    /\ edf.rows[1].exercise_name = "Leg Press"
    /\ edf.rows[2].exercise_name = "Leg Press"
    /\ "Leg Press" \in DOMAIN exercise_cache
    /\ RowPair(2) # DefaultPair(config)

\* C30: the unmapped list holds no raw name twice, so the unmapped_count of the mapping
\* summary is the number of names get_unmapped_exercises returns
C30_UnmappedListHasNoDuplicates ==
    /\ \A i, j \in 1..Len(unmapped_exercises) :
           unmapped_exercises[i] = unmapped_exercises[j] => i = j
    /\ (eout.op = "summary" /\ DOMAIN eout.value # {}) =>
           eout.value.unmapped_count = Cardinality(eout.value.unmapped_exercises)

C30_Witness ==
    /\ eout.op = "summary"
    /\ DOMAIN eout.value # {}
    /\ eout.value.unmapped_count = 1
    /\ Len(ein.rows) = 2
    /\ ein.rows[1].exercise_name = ein.rows[2].exercise_name
    /\ ein.rows[1].exercise_name \in UnmappedSet

\* C24: the queries are read-only: a step that is the mapping summary, the unmapped list
\* or suggest_mapping, for any name, leaves the alias lookup, the memo cache and the
\* unmapped list as they were
C24_QueriesAreReadOnly ==
    [][eout'.op \in {"summary", "unmapped", "suggest"} =>
           UNCHANGED <<exercise_lookup, exercise_cache, unmapped_exercises>>]_vars

C24_Witness ==
    /\ eout.op = "suggest"
    /\ eout.status = "returned"
    /\ eout.arg \in NonBlankNames
    /\ eout.arg \notin DOMAIN exercise_cache
    /\ DOMAIN exercise_cache # {}
    /\ unmapped_exercises # <<>>

\* a suggest_mapping call returned a list
Suggested == eout.op = "suggest" /\ eout.status = "returned"

\* the confidences of a suggestion list fall strictly from entry to entry
Descending(list) == \A i \in 1..(Len(list) - 1) : list[i][3] > list[i + 1][3]

\* the last entry of a suggestion list is the default mapping with confidence 0.3
EndsWithDefault(list) ==
    /\ list # <<>>
    /\ list[Len(list)] = <<DefaultPair(config)[1], DefaultPair(config)[2], 3>>

\* C26 as stated: every suggestion list is in descending confidence and holds at most
\* one exact (1.0) or fuzzy (0.7) candidate, then the default entry with confidence 0.3
C26_AlwaysEndsWithDefault ==
    Suggested =>
        /\ Descending(eout.value)
        /\ Len(eout.value) <= 2
        /\ EndsWithDefault(eout.value)
        /\ \A i \in 1..(Len(eout.value) - 1) : eout.value[i][3] \in {10, 7}

\* C26: suggest_mapping returns entries in descending confidence; a name with an exact
\* match gets the single exact entry with confidence 1.0 and no default entry; any other
\* name gets the fuzzy entry with confidence 0.7 when a rule applies, then the default
\* entry with confidence 0.3
C26_ExactAloneElseFuzzyThenDefault ==
    Suggested =>
        /\ Descending(eout.value)
        /\ AliasGroups(config, eout.arg) # {} =>
               /\ Len(eout.value) = 1
               /\ eout.value[1][3] = 10
               /\ <<eout.value[1][1], eout.value[1][2]>> = Uncached(eout.arg)
        /\ AliasGroups(config, eout.arg) = {} =>
               /\ EndsWithDefault(eout.value)
               /\ Len(eout.value) = IF ApplicableRules(config, eout.arg) # {} THEN 2 ELSE 1
               /\ ApplicableRules(config, eout.arg) # {} =>
                      /\ eout.value[1][3] = 7
                      /\ <<eout.value[1][1], eout.value[1][2]>> = Uncached(eout.arg)

C26_Witness ==
    /\ Suggested
    /\ AliasGroups(config, eout.arg) # {}
    /\ ApplicableRules(config, eout.arg) # {}
    /\ Len(eout.value) = 1

(***************************************************************************)
(* Claims about the order and the content of the error list                *)
(***************************************************************************)
\* the step of parse_csv that leaves an error of a kind: 1 the required columns, 2 the
\* type conversion, 3 the constraints
StepOf(kind) ==
    IF kind = "MissingRequired" THEN 1
    ELSE IF kind \in {"ConvertError", "NotInteger", "NotFloat"} THEN 2
    ELSE 3

\* the place of a canonical column in the declaration order, required before optional
DeclaredAt(sch, col) ==
    LET names == ColumnNames(sch.required_columns)
                 \o ColumnNames(Get(sch, "optional_columns", <<>>))
    IN  Least({k \in 1..Len(names) : names[k] = col})

\* C23: in the error list of one parse the missing-required-columns error comes before
\* every type-conversion error, every type-conversion error before every constraint
\* (min, max, null) error, and the errors of one step are in the order in which the
\* schema declares their columns, required before optional
C23_ErrorsFollowStepOrder ==
    \A i, j \in 1..Len(errors) :
        i < j =>
            /\ StepOf(errors[i].kind) <= StepOf(errors[j].kind)
            /\ (StepOf(errors[i].kind) = StepOf(errors[j].kind) /\ StepOf(errors[i].kind) > 1)
                   => DeclaredAt(schema, errors[i].col) <= DeclaredAt(schema, errors[j].col)

C23_Witness ==
    /\ Parsed
    /\ {StepOf(errors[i].kind) : i \in 1..Len(errors)} = {1, 2, 3}
    /\ \E i, j \in 1..Len(errors) :
           /\ StepOf(errors[i].kind) = StepOf(errors[j].kind)
           /\ StepOf(errors[i].kind) > 1
           /\ errors[i].col # errors[j].col

\* the errors that the type conversion leaves
CoercionErrors(list) ==
    LET Is(e) == StepOf(e.kind) = 2
    IN  SelectSeq(list, Is)

\* the headers of the file that bear a canonical name after the mapping
Bearers(sch, file, col_name) ==
    {j \in 1..Len(file.headers) : MappedHeaders(sch, file)[j] = col_name}

\* the data rows of the file in which a column bearing the canonical name holds a token
\* that is not a number (an empty cell included)
Unconvertible(sch, file, col_name) ==
    {i \in 1..Len(file.rows) :
        \E j \in Bearers(sch, file, col_name) : file.rows[i][j] \notin DOMAIN NumOf}

\* C27: for an integer or float column read from the file in which n >= 1 cells cannot
\* be converted, the error list holds one conversion error on that column, which states
\* the count n, and the cells are null in the returned table; a column in which every
\* cell can be converted has no conversion error
C27_CoercionErrorCountsUnconvertible ==
    Mapped =>
        \A c \in 1..Len(AllColumns(schema)) :
            LET col_config == AllColumns(schema)[c]
                bad == Unconvertible(schema, pfile, col_config.name)
                reports == CoercionErrors(OnColumn(errors, col_config.name))
            IN  (/\ Get(col_config, "type", None) \in {"integer", "float"}
                 /\ Bearers(schema, pfile, col_config.name) # {}) =>
                    IF bad = {}
                    THEN reports = <<>>
                    ELSE /\ Len(reports) = 1
                         /\ reports[1].kind \in {"NotInteger", "NotFloat"}
                         /\ reports[1].n = Cardinality(bad)
                         /\ Returned =>
                                \A i \in bad :
                                    IsNa(Column(pout.df, col_config.name).cells[i])

\* C29: after the column mapping the names of the columns of the table are pairwise
\* distinct: the renaming of a header to a canonical name never gives a second column
\* the name that another header already bears
C29_MappedNamesAreDistinct ==
    Mapped =>
        \A j, k \in 1..Len(pfile.headers) :
            MappedHeaders(schema, pfile)[j] = MappedHeaders(schema, pfile)[k] => j = k

(***************************************************************************)
(* BigQueryViewManager (src/modules/bigquery_views.py)                     *)
(***************************************************************************)
\* the names of the views of the runs
ViewNames == {"view1", "view2", "workout_frequency_by_muscle_group"}

\* the largest number of entries of a view_configs list
MaxViews == 3

\* the view_configs lists: dicts with a 'name' key, a name possibly more than once
ViewConfigs ==
    UNION {[1..n -> {[name |-> v] : v \in ViewNames}] : n \in 0..MaxViews}

\* a record of the module's logger
LogRecord(level, event, view_name) == [level |-> level, event |-> event, view |-> view_name]

\* BigQueryViewManager.load_view_sql: the query text, or the exception it raises
LoadViewSql(files, view_name) ==
    IF view_name \notin files THEN "FileNotFoundError" ELSE "sql"

\* BigQueryViewManager.create_or_update_view in front of the files and the dataset:
\* the flag it returns, the records it logs and the views of the dataset afterwards
CreateOrUpdateView(files, refused, views, view_name) ==
    IF LoadViewSql(files, view_name) = "FileNotFoundError"
    THEN [success |-> FALSE, views |-> views,
          log |-> <<LogRecord("error", "failed", view_name)>>]
    ELSE IF view_name \in refused
    THEN [success |-> FALSE, views |-> views,
          log |-> <<LogRecord("info", "creating", view_name),
                    LogRecord("error", "failed", view_name)>>]
    ELSE [success |-> TRUE, views |-> views \cup {view_name},
          log |-> <<LogRecord("info", "creating", view_name),
                    LogRecord("info", "created", view_name)>>]

\* a loop that gives up at the first view that fails
RECURSIVE RefreshLoop_StopOnFailure(_, _, _, _)
RefreshLoop_StopOnFailure(files, refused, acc, view_configs) ==
    IF view_configs = <<>> THEN acc
    ELSE LET view_name == Head(view_configs).name
             r == CreateOrUpdateView(files, refused, acc.views, view_name)
             next == [results |-> Put(acc.results, view_name, r.success),
                      views |-> r.views, log |-> acc.log \o r.log]
         IN  IF r.success
             THEN RefreshLoop_StopOnFailure(files, refused, next, Tail(view_configs))
             ELSE next

\* the loop of refresh_all_views; acc = [results, views, log]
RECURSIVE RefreshLoop(_, _, _, _)
RefreshLoop(files, refused, acc, view_configs) ==
    IF view_configs = <<>> THEN acc
    ELSE LET view_name == Head(view_configs).name
             r == CreateOrUpdateView(files, refused, acc.views, view_name)
         IN  RefreshLoop(files, refused,
                         [results |-> Put(acc.results, view_name, r.success),
                          views |-> r.views, log |-> acc.log \o r.log],
                         Tail(view_configs))

\* the number of views of a results dict that succeeded
Successful(results) == Cardinality({v \in DOMAIN results : results[v]})

\* BigQueryViewManager.refresh_all_views(view_configs)
RefreshAllViews(view_configs) ==
    \E acc \in {RefreshLoop(sql_files, rejected,
                            [results |-> EmptyDict, views |-> dataset_views, log |-> <<>>],
                            view_configs)} :
        /\ dataset_views' = acc.views
        /\ vconfigs' = view_configs
        /\ vlog' = Append(acc.log,
                          [level |-> "info", event |-> "complete",
                           view |-> None, successful |-> Successful(acc.results),
                           total |-> Cardinality(DOMAIN acc.results)])
        /\ vout' = [op |-> "refresh_all_views", status |-> "returned", value |-> acc.results]
        /\ UNCHANGED <<sql_files, rejected>>

\* BigQueryViewManager.create_or_update_view(view_name), called on its own
CreateView(view_name) ==
    \E r \in {CreateOrUpdateView(sql_files, rejected, dataset_views, view_name)} :
        /\ dataset_views' = r.views
        /\ vlog' = r.log
        /\ vout' = [op |-> "create_or_update_view", status |-> "returned",
                    value |-> r.success]
        /\ UNCHANGED <<sql_files, rejected, vconfigs>>

Refresh == \E view_configs \in ViewConfigs : RefreshAllViews(view_configs)
Create == \E view_name \in ViewNames : CreateView(view_name)

\* one view manager, in front of any set of SQL files and any set of refused queries
InitViews ==
    /\ \E files \in SUBSET ViewNames : \E refused \in SUBSET ViewNames :
           InitViewManager(files, refused)
    /\ InitClassifier(CfgD)
    /\ InitParser(EmptyDict)
NextViews == (Refresh \/ Create) /\ UNCHANGED <<evars, pvars>>
SpecViews == InitViews /\ [][NextViews]_vars

\* a refresh_all_views call was made
Refreshed == vout.op = "refresh_all_views"

\* the views the last call attempted, in the order of the attempts: each attempt ends
\* with one record, that the view was created or that it failed
Attempts(log) ==
    LET Ends(e) == e.event \in {"created", "failed"}
        ends == SelectSeq(log, Ends)
    IN  [i \in 1..Len(ends) |-> ends[i].view]

\* C28: refresh_all_views attempts every configured view in the order of the
\* configuration and returns, without raising, one flag per view name; a view whose SQL
\* file is missing or whose query fails has the flag False, every other view the flag
\* True, and the views configured after a failing one are attempted all the same
C28_EveryViewAttempted ==
    Refreshed =>
        /\ vout.status = "returned"
        /\ Attempts(vlog) = [i \in 1..Len(vconfigs) |-> vconfigs[i].name]
        /\ DOMAIN vout.value = {vconfigs[i].name : i \in 1..Len(vconfigs)}
        /\ \A v \in DOMAIN vout.value :
               vout.value[v] = (v \in sql_files /\ v \notin rejected)
        /\ \A v \in DOMAIN vout.value : vout.value[v] => v \in dataset_views

C28_Witness ==
    /\ Refreshed
    /\ Len(vconfigs) = 3
    /\ vconfigs[1].name \notin sql_files
    /\ vconfigs[2].name \in sql_files \cap rejected
    /\ vout.value[vconfigs[3].name]
    /\ vconfigs[3].name \in dataset_views

====
